---- MODULE Spec2Model ----
(***************************************************************************)
(* Model of the Kernel API gateway client (src/src/client.py): the shared  *)
(* httpx transport (_client, get_client, cleanup_client), the retrying     *)
(* dispatcher request() and the normaliser parse_list_response.            *)
(* The tool handlers of src/src/browsers.py and src/src/apps.py and main()  *)
(* of src/src/server.py are modelled on top of it.                         *)
(*                                                                         *)
(* Time is counted in milliseconds, so RETRY_BACKOFF = 0.5 s is 500.       *)
(* The process runs on one asyncio event loop: code between two awaits is  *)
(* one atomic step; a coroutine can be interleaved with others only where  *)
(* it awaits the network exchange, the backoff sleep or aclose().          *)
(***************************************************************************)
EXTENDS Integers, Sequences, FiniteSets, TLC

\* ------------------------------------------------------------------ bounds
MaxHandles == 3      \* transport handles the process may construct in a run
MaxLen == 3          \* longest list in a response body
MaxItem == 3         \* list items are drawn from 1..MaxItem

\* ------------------------------------------------------- program constants
MAX_RETRIES == 3
RETRY_BACKOFF == 500
KERNEL_API_BASE == "https://api.onkernel.com"
MAX_CONNECTIONS == 20    \* limits=httpx.Limits(max_connections=20)

Callers == {1, 2}    \* the frames request() can have in flight
Solo == {1}          \* the caller of the specification of one call at a time
Handles == 1..MaxHandles
None == 0            \* _client = None

\* ---------------------------------------------------------------- inputs
Methods == {"GET", "POST", "DELETE", "PATCH", "PUT"}
Statuses == {200, 404, 499, 500, 503, 599}
\* Faults of one exchange: the ones request() catches, and ones it does not.
CaughtFaults == {"ConnectError", "ReadTimeout", "WriteTimeout"}
OtherFaults == {"ConnectTimeout", "PoolTimeout"}
Faults == CaughtFaults \cup OtherFaults
Unset == "<unset>"   \* os.getenv returns None
EnvKeys == {Unset, "", "k1"}
PathOf(p) == IF p = 1 THEN "/browsers" ELSE "/profiles"

VARIABLES
    _client,      \* the module global: None or the stored handle
    handles,      \* every handle: "absent" (not constructed), "open", "closed"
    api_key,      \* the environment variable KERNEL_API_KEY
    call,         \* call[p]: the frame of caller p's request() invocation
    cleanup_pc,   \* cleanup_client(): "idle", or "aclose" while awaiting the close
    body,         \* parse_list_response: its argument
    parsed,       \* parse_list_response: what it returned
    tool,         \* tool[p]: the frame of the tool handler that caller p runs
    serve         \* main() of server.py: where it is, how serve() ended

vars == <<_client, handles, api_key, call, cleanup_pc, body, parsed, tool, serve>>

\* ------------------------------------------------------------ values
\* str(): the message of an exception, resp.text: the body text of a response.
NoMsg == [kind |-> "none", status |-> 0, of |-> "-"]
RespText(s) == [kind |-> "resp.text", status |-> s, of |-> "-"]
StrOf(f) == [kind |-> "str(e)", status |-> 0, of |-> f]
Literal(t) == [kind |-> "literal", status |-> 0, of |-> t]

\* url = f"{KERNEL_API_BASE}{path}"
Url(path) == [base |-> KERNEL_API_BASE, path |-> path]
NoUrl == [base |-> "", path |-> ""]

NoError == [type |-> "None", status_code |-> 0, message |-> StrOf("None"), endpoint |-> NoUrl]
\* A fault or a builtin exception: it has a message and nothing else.
Exc(type, msg) == [type |-> type, status_code |-> 0, message |-> msg, endpoint |-> NoUrl]

KernelAPIError(status_code, message, endpoint) ==
    [type |-> "KernelAPIError", status_code |-> status_code,
     message |-> message, endpoint |-> endpoint]

NoResponse == [status_code |-> 0, text |-> NoMsg]
Response(s) == [status_code |-> s, text |-> RespText(s)]

\* What one attempt ended in.
GotStatus(s) == [kind |-> "response", status_code |-> s, fault |-> "-"]
GotFault(f) == [kind |-> "fault", status_code |-> 0, fault |-> f]

\* f"Bearer {api_key}"
Bearer(key) == [scheme |-> "Bearer", token |-> key]

NoHeaders == [Authorization |-> [scheme |-> "", token |-> ""], ContentType |-> ""]

\* Mutant: only an unset variable counts as missing (if api_key is None).
HasKeyNotNone(key) == key # Unset

\* if not api_key
HasKey(key) == key # Unset /\ key # ""

get_headers(key) ==
    [Authorization |-> Bearer(key), ContentType |-> "application/json"]

\* A str that is a path and nothing before it.
Path(path) == [base |-> "", path |-> path]

\* No tool handler is running for the caller.
IdleTool == [pc |-> "idle", name |-> "-", raised |-> NoError, result |-> "-"]

\* main() has not been entered.
NotServing == [pc |-> "start", outcome |-> "-", cleanups |-> 0]

IdleCall ==
    [pc |-> "idle", method |-> "GET", client |-> None, headers |-> NoHeaders,
     url |-> NoUrl, attempt |-> 0, last_error |-> NoError,
     outs |-> <<>>, sleeps |-> <<>>, sent |-> 0,
     resp |-> NoResponse, raised |-> NoError]

\* ------------------------------------------------------------ get_client
\* _client is not None and not _client.is_closed
IsOpen(c, hs) == c # None /\ hs[c] # "closed"

\* Mutant: the is_closed test is forgotten (if _client is None).
NeedsNewOnlyNone(c, hs) == c = None

NeedsNew(c, hs) == ~IsOpen(c, hs)

FreshHandle(hs) == CHOOSE h \in Handles : hs[h] = "absent" /\ \A g \in 1..(h - 1) : hs[g] # "absent"

CanGetClient == NeedsNew(_client, handles) => \E h \in Handles : handles[h] = "absent"

\* Mutant: a transport is constructed on every call.
get_clientAlwaysNew(c, hs) ==
    [client |-> FreshHandle(hs), handles |-> [hs EXCEPT ![FreshHandle(hs)] = "open"]]

get_client(c, hs) ==
    IF NeedsNew(c, hs)
    THEN [client |-> FreshHandle(hs), handles |-> [hs EXCEPT ![FreshHandle(hs)] = "open"]]
    ELSE [client |-> c, handles |-> hs]

RECURSIVE Pow2(_)
Pow2(n) == IF n = 0 THEN 1 ELSE 2 * Pow2(n - 1)

\* Mutant: the delay does not double.
BackoffFlat(attempt) == RETRY_BACKOFF

Backoff(attempt) == RETRY_BACKOFF * Pow2(attempt)

Supported(method) == method \in {"GET", "POST", "DELETE", "PATCH"}

Retryable(f) == f \in CaughtFaults

\* Mutant: only statuses below 400 end the call.
FinalBelow400(status_code) == status_code < 400

\* Mutant: the comparison is the wrong way round.
FinalInverted(status_code) == status_code >= 500

Final(status_code) == status_code < 500

\* Mutant: the except clause catches the ValueError of the dispatch as well.
IssueCatchesValueError(c, hs) ==
    IF ~Supported(c.method)
    THEN [c EXCEPT !.pc = "sleep", !.last_error = Exc("ValueError", Literal("Unsupported method")),
                   !.sleeps = Append(@, Backoff(c.attempt))]
    ELSE IF hs[c.client] = "closed"
    THEN [c EXCEPT !.pc = "raised", !.raised = Exc("RuntimeError", Literal("client has been closed")),
                   !.outs = Append(@, GotFault("RuntimeError"))]
    ELSE [c EXCEPT !.pc = "await", !.sent = @ + 1]

\* The try block of one loop iteration up to its await: the method dispatch.
\* httpx refuses to send on a closed client (RuntimeError), before any exchange.
Issue(c, hs) ==
    IF ~Supported(c.method)
    THEN [c EXCEPT !.pc = "raised", !.raised = Exc("ValueError", Literal("Unsupported method"))]
    ELSE IF hs[c.client] = "closed"
    THEN [c EXCEPT !.pc = "raised", !.raised = Exc("RuntimeError", Literal("client has been closed")),
                   !.outs = Append(@, GotFault("RuntimeError"))]
    ELSE [c EXCEPT !.pc = "await", !.sent = @ + 1]

\* What one attempt of the frame puts on the wire: client.get and
\* client.delete are given the headers and no body, client.post and
\* client.patch the headers and json=json_data or {}.
Wire(c) == [headers |-> c.headers, has_body |-> c.method \in {"POST", "PATCH"}]

\* Mutant: the recorded fault is raised as it is, not wrapped.
ExhaustedRaw(c) == [c EXCEPT !.pc = "raised", !.raised = c.last_error]

\* After the loop: the last recorded error decides what is raised.
Exhausted(c) ==
    IF c.last_error.type = "KernelAPIError"
    THEN [c EXCEPT !.pc = "raised", !.raised = c.last_error]
    ELSE [c EXCEPT !.pc = "raised",
                   !.raised = KernelAPIError(0, c.last_error.message, c.url)]

\* Mutant: the loop sleeps after the last attempt too and goes round again.
RecordedOffByOne(c) ==
    IF c.attempt < MAX_RETRIES
    THEN [c EXCEPT !.pc = "sleep", !.sleeps = Append(@, Backoff(c.attempt))]
    ELSE Exhausted(c)

\* Mutant: no backoff before the second attempt.
RecordedSkipsFirstSleep(c) ==
    IF c.attempt < MAX_RETRIES - 1
    THEN [c EXCEPT !.pc = "sleep",
                   !.sleeps = IF c.attempt > 0 THEN Append(@, Backoff(c.attempt)) ELSE @]
    ELSE Exhausted(c)

\* Mutant: asyncio.sleep() is not awaited, the next attempt is sent at once.
RecordedForgotAwait(c) ==
    IF c.attempt < MAX_RETRIES - 1
    THEN [c EXCEPT !.pc = "await", !.attempt = @ + 1, !.sent = @ + 1]
    ELSE Exhausted(c)

\* The tail of one loop iteration, reached once an error is recorded.
Recorded(c) ==
    IF c.attempt < MAX_RETRIES - 1
    THEN [c EXCEPT !.pc = "sleep", !.sleeps = Append(@, Backoff(c.attempt))]
    ELSE Exhausted(c)

\* ------------------------------------------------------------ request()
\* request(method, path, ...), up to its first await.
StartAt(p, m, path) ==
    /\ call[p].pc = "idle"
    /\ CanGetClient
    /\ LET g == get_client(_client, handles)
           c0 == [IdleCall EXCEPT !.method = m, !.client = g.client]
       IN /\ _client' = g.client
          /\ handles' = g.handles
          /\ call' = [call EXCEPT ![p] =
                IF ~HasKey(api_key)
                THEN [c0 EXCEPT !.pc = "raised",
                                !.raised = Exc("ValueError", Literal("KERNEL_API_KEY environment variable not set"))]
                ELSE Issue([c0 EXCEPT !.headers = get_headers(api_key),
                                      !.url = Url(path)], g.handles)]
    /\ UNCHANGED <<api_key, cleanup_pc, body, parsed>>

\* Mutant: the backoff is time.sleep(), which holds the event loop: nothing
\* else runs while a call sleeps.
StartBlockedBySleep(p, m) ==
    /\ call[p].pc = "idle"
    /\ \A q \in DOMAIN call : call[q].pc # "sleep"
    /\ CanGetClient
    /\ LET g == get_client(_client, handles)
           c0 == [IdleCall EXCEPT !.method = m, !.client = g.client]
       IN /\ _client' = g.client
          /\ handles' = g.handles
          /\ call' = [call EXCEPT ![p] =
                IF ~HasKey(api_key)
                THEN [c0 EXCEPT !.pc = "raised",
                                !.raised = Exc("ValueError", Literal("KERNEL_API_KEY environment variable not set"))]
                ELSE Issue([c0 EXCEPT !.headers = get_headers(api_key),
                                      !.url = Url(PathOf(p))], g.handles)]
    /\ UNCHANGED <<api_key, cleanup_pc, body, parsed, tool, serve>>

\* A call made directly by caller p, on the path of that caller.
Start(p, m) ==
    /\ StartAt(p, m, PathOf(p))
    /\ UNCHANGED <<tool, serve>>

\* Mutant: a server error is recorded only when none is recorded yet.
RespondKeepsFirst(p, s) ==
    /\ call[p].pc = "await"
    /\ LET c == [call[p] EXCEPT !.outs = Append(@, GotStatus(s))]
       IN call' = [call EXCEPT ![p] =
             IF Final(s)
             THEN [c EXCEPT !.pc = "returned", !.resp = Response(s)]
             ELSE Recorded([c EXCEPT !.last_error =
                        IF @ = NoError THEN KernelAPIError(s, RespText(s), c.url) ELSE @])]
    /\ UNCHANGED <<_client, handles, api_key, cleanup_pc, body, parsed, tool, serve>>

\* The exchange ends in a response.
Respond(p, s) ==
    /\ call[p].pc = "await"
    /\ LET c == [call[p] EXCEPT !.outs = Append(@, GotStatus(s))]
       IN call' = [call EXCEPT ![p] =
             IF Final(s)
             THEN [c EXCEPT !.pc = "returned", !.resp = Response(s)]
             ELSE Recorded([c EXCEPT !.last_error = KernelAPIError(s, RespText(s), c.url)])]
    /\ UNCHANGED <<_client, handles, api_key, cleanup_pc, body, parsed, tool, serve>>

\* Mutant: last_error is a module global: the fault is recorded in every frame
\* that is in flight.
FaultSharedLastError(p, f) ==
    /\ call[p].pc = "await"
    /\ LET c == [call[p] EXCEPT !.outs = Append(@, GotFault(f))]
       IN call' = [q \in DOMAIN call |->
             IF q = p
             THEN IF Retryable(f)
                  THEN Recorded([c EXCEPT !.last_error = Exc(f, StrOf(f))])
                  ELSE [c EXCEPT !.pc = "raised", !.raised = Exc(f, StrOf(f))]
             ELSE IF Retryable(f) /\ call[q].pc \in {"await", "sleep"}
                  THEN [call[q] EXCEPT !.last_error = Exc(f, StrOf(f))]
                  ELSE call[q]]
    /\ UNCHANGED <<_client, handles, api_key, cleanup_pc, body, parsed, tool, serve>>

\* Mutant: a fault does not replace a server error recorded by an earlier attempt.
FaultKeepsStatus(p, f) ==
    /\ call[p].pc = "await"
    /\ LET c == [call[p] EXCEPT !.outs = Append(@, GotFault(f))]
       IN call' = [call EXCEPT ![p] =
             IF Retryable(f)
             THEN Recorded([c EXCEPT !.last_error =
                        IF @.type = "KernelAPIError" THEN @ ELSE Exc(f, StrOf(f))])
             ELSE [c EXCEPT !.pc = "raised", !.raised = Exc(f, StrOf(f))]]
    /\ UNCHANGED <<_client, handles, api_key, cleanup_pc, body, parsed, tool, serve>>

\* The exchange ends in an exception of the transport.
Fault(p, f) ==
    /\ call[p].pc = "await"
    /\ LET c == [call[p] EXCEPT !.outs = Append(@, GotFault(f))]
       IN call' = [call EXCEPT ![p] =
             IF Retryable(f)
             THEN Recorded([c EXCEPT !.last_error = Exc(f, StrOf(f))])
             ELSE [c EXCEPT !.pc = "raised", !.raised = Exc(f, StrOf(f))]]
    /\ UNCHANGED <<_client, handles, api_key, cleanup_pc, body, parsed, tool, serve>>

\* Mutant: get_headers() is called again on every attempt.
WakeRereadsHeaders(p) ==
    /\ call[p].pc = "sleep"
    /\ call' = [call EXCEPT ![p] =
          Issue([call[p] EXCEPT !.attempt = @ + 1, !.headers = get_headers(api_key)], handles)]
    /\ UNCHANGED <<_client, handles, api_key, cleanup_pc, body, parsed, tool, serve>>

\* Mutant: the handle is taken again from the module global on every attempt.
WakeReacquires(p) ==
    /\ call[p].pc = "sleep"
    /\ call' = [call EXCEPT ![p] =
          Issue([call[p] EXCEPT !.attempt = @ + 1,
                                !.client = IF IsOpen(_client, handles) THEN _client ELSE @],
                handles)]
    /\ UNCHANGED <<_client, handles, api_key, cleanup_pc, body, parsed, tool, serve>>

\* The backoff sleep ends: the next loop iteration, up to its await.
Wake(p) ==
    /\ call[p].pc = "sleep"
    /\ call' = [call EXCEPT ![p] = Issue([call[p] EXCEPT !.attempt = @ + 1], handles)]
    /\ UNCHANGED <<_client, handles, api_key, cleanup_pc, body, parsed, tool, serve>>

\* Mutant: request() closes the transport it used when it ends
\* (async with client).
FinishClosesClient(p) ==
    /\ call[p].pc \in {"returned", "raised"}
    /\ call' = [call EXCEPT ![p] = IdleCall]
    /\ handles' = [handles EXCEPT ![call[p].client] = "closed"]
    /\ UNCHANGED <<_client, api_key, cleanup_pc, body, parsed, tool, serve>>

\* The caller has taken the response or the exception; the frame is gone.
Finish(p) ==
    /\ call[p].pc \in {"returned", "raised"}
    /\ call' = [call EXCEPT ![p] = IdleCall]
    /\ UNCHANGED <<_client, handles, api_key, cleanup_pc, body, parsed, tool, serve>>

\* ------------------------------------------------------------ cleanup_client()
\* Up to the await: aclose() marks the client closed before it first suspends.
CleanupBegin ==
    /\ cleanup_pc = "idle"
    /\ IsOpen(_client, handles)
    /\ handles' = [handles EXCEPT ![_client] = "closed"]
    /\ cleanup_pc' = "aclose"
    /\ UNCHANGED <<_client, api_key, call, body, parsed, tool, serve>>

\* Mutant: the global is not cleared after the close.
CleanupEndKeepsGlobal ==
    /\ cleanup_pc = "aclose"
    /\ cleanup_pc' = "idle"
    /\ UNCHANGED <<_client, handles, api_key, call, body, parsed, tool, serve>>

\* aclose() has returned: the global is cleared, whatever it holds by now.
CleanupEnd ==
    /\ cleanup_pc = "aclose"
    /\ _client' = None
    /\ cleanup_pc' = "idle"
    /\ UNCHANGED <<handles, api_key, call, body, parsed, tool, serve>>

\* No handle, or a closed one: the condition is false and nothing happens.
CleanupNoop ==
    /\ cleanup_pc = "idle"
    /\ ~IsOpen(_client, handles)
    /\ UNCHANGED vars

\* The operator changes the environment variable.
SetEnv(k) ==
    /\ k # api_key
    /\ api_key' = k
    /\ UNCHANGED <<_client, handles, call, cleanup_pc, body, parsed, tool, serve>>

\* ------------------------------------------------------------ parse_list_response
\* A decoded body (resp.json()): None, a list, a scalar, or a dict that may
\* hold "data" (None, a list or a scalar) and may hold another key, "id".
Items == 1..MaxItem
RECURSIVE ListsUpTo(_)
ListsUpTo(n) ==
    IF n = 0 THEN {<<>>}
    ELSE ListsUpTo(n - 1) \cup {Append(l, i) : l \in {k \in ListsUpTo(n - 1) : Len(k) = n - 1}, i \in Items}

JNull == [t |-> "null", items |-> <<>>, n |-> 0]
JList(l) == [t |-> "list", items |-> l, n |-> 0]
JInt(n) == [t |-> "int", items |-> <<>>, n |-> n]
JDict(has_data, data, has_id) == [t |-> "dict", has_data |-> has_data, data |-> data, has_id |-> has_id]

Plain == {JNull} \cup {JList(l) : l \in ListsUpTo(MaxLen)} \cup {JInt(n) : n \in Items}
Dicts == {JDict(TRUE, d, i) : d \in Plain, i \in BOOLEAN} \cup {JDict(FALSE, JNull, i) : i \in BOOLEAN}
Bodies == Plain \cup Dicts

NotParsed == [t |-> "not called", items |-> <<>>, n |-> 0]

\* data.get("data", data)
DictGet(data) == IF data.has_data THEN data.data ELSE data

\* Mutant: None is passed through.
OrEmptyForgotten(result) == result

\* result if result is not None else []
OrEmpty(result) == IF result.t # "null" THEN result ELSE JList(<<>>)

parse_list_response(data) ==
    IF data.t = "dict" THEN OrEmpty(DictGet(data)) ELSE OrEmpty(data)

ParseListResponse ==
    /\ parsed = NotParsed
    /\ parsed' = parse_list_response(body)
    /\ UNCHANGED <<_client, handles, api_key, call, cleanup_pc, body, tool, serve>>

\* The next response body arrives.
NextBody ==
    /\ parsed # NotParsed
    /\ body' \in Bodies
    /\ parsed' = NotParsed
    /\ UNCHANGED <<_client, handles, api_key, call, cleanup_pc, tool, serve>>

Init ==
    /\ _client = None
    /\ handles = [h \in Handles |-> "absent"]
    /\ api_key \in EnvKeys
    /\ call = [p \in Callers |-> IdleCall]
    /\ cleanup_pc = "idle"
    /\ body = JNull
    /\ parsed = NotParsed
    /\ tool = [p \in Callers |-> IdleTool]
    /\ serve = NotServing

Next ==
    \/ \E p \in Solo, m \in Methods : Start(p, m)
    \/ \E p \in Solo, s \in Statuses : Respond(p, s)
    \/ \E p \in Solo, f \in Faults : Fault(p, f)
    \/ \E p \in Solo : Wake(p)
    \/ \E p \in Solo : Finish(p)
    \/ CleanupBegin
    \/ CleanupEnd
    \/ CleanupNoop
    \/ \E k \in EnvKeys : SetEnv(k)

Spec == Init /\ [][Next]_vars

\* parse_list_response on every body of the bounded set.
InitParse ==
    /\ _client = None
    /\ handles = [h \in Handles |-> "absent"]
    /\ api_key = "k1"
    /\ call = [p \in Callers |-> IdleCall]
    /\ cleanup_pc = "idle"
    /\ body \in Bodies
    /\ parsed = NotParsed
    /\ tool = [p \in Callers |-> IdleTool]
    /\ serve = NotServing

NextParse == ParseListResponse \/ NextBody

SpecParse == InitParse /\ [][NextParse]_vars

\* ------------------------------------------------------------ a burst of calls
\* As many request() calls as the pool has connections, made at once (gather)
\* against an endpoint that answers 200. The event loop starts the tasks in
\* the order they were created. The calls are alike, so a state is fixed, up
\* to renaming the callers, by how many have started and how many are
\* answered: the answers are delivered to the lowest caller waiting.
LoadCallers == 1..MAX_CONNECTIONS

InitLoad ==
    /\ _client = None
    /\ handles = [h \in Handles |-> "absent"]
    /\ api_key = "k1"
    /\ call = [p \in LoadCallers |-> IdleCall]
    /\ cleanup_pc = "idle"
    /\ body = JNull
    /\ parsed = NotParsed
    /\ tool = [p \in Callers |-> IdleTool]
    /\ serve = NotServing

LoadStart(p) ==
    /\ \A q \in 1..(p - 1) : call[q].pc # "idle"
    /\ Start(p, "GET")

LoadRespond(p) ==
    /\ \A q \in 1..(p - 1) : call[q].pc # "await"
    /\ Respond(p, 200)

NextLoad ==
    \/ \E p \in LoadCallers : LoadStart(p)
    \/ \E p \in LoadCallers : LoadRespond(p)

SpecLoad == InitLoad /\ [][NextLoad]_vars

\* ------------------------------------------------------------ two callers
\* Two request() calls in flight at once on the event loop, with no teardown
\* running; each attempt ends in one of a few outcomes of every kind.
ConcMethods == {"GET", "PUT"}
ConcStatuses == {200, 404, 500, 503}
ConcFaults == {"ConnectError", "ReadTimeout", "ConnectTimeout"}

InitConc ==
    /\ _client = None
    /\ handles = [h \in Handles |-> "absent"]
    /\ api_key = "k1"
    /\ call = [p \in Callers |-> IdleCall]
    /\ cleanup_pc = "idle"
    /\ body = JNull
    /\ parsed = NotParsed
    /\ tool = [p \in Callers |-> IdleTool]
    /\ serve = NotServing

NextConc ==
    \/ \E p \in Callers, m \in ConcMethods : Start(p, m)
    \/ \E p \in Callers, s \in ConcStatuses : Respond(p, s)
    \/ \E p \in Callers, f \in ConcFaults : Fault(p, f)
    \/ \E p \in Callers : Wake(p)
    \/ \E p \in Callers : Finish(p)

SpecConc == InitConc /\ [][NextConc]_vars

\* ================================================================== claims
\* Every attempt so far of c ended as P says, and there is at least one.
EveryOut(c, P(_)) == c.outs # <<>> /\ \A i \in 1..Len(c.outs) : P(c.outs[i])

Is5xx(o) == o.kind = "response" /\ o.status_code >= 500 /\ o.status_code <= 599
IsConnectivity(o) == o.kind = "fault" /\ o.fault \in {"ConnectError", "ReadTimeout", "WriteTimeout"}
IsTransient(o) == o.kind = "fault" \/ (o.kind = "response" /\ o.status_code >= 500)
Below500(o) == o.kind = "response" /\ o.status_code < 500

\* The two backoff delays, in milliseconds.
Delays == <<500, 1000>>

\* C1: while every attempt of a call is answered with the same 5xx status, the
\* call goes on to a third attempt, sleeps 0.5 s and then 1.0 s between the
\* attempts and not after the third, and ends by raising KernelAPIError with
\* that status.
C1_ServerErrorsExhaust ==
    \A p \in Callers : \A s \in {x \in Statuses : x >= 500 /\ x <= 599} :
        LET c == call[p]
            k == Len(c.outs)
            same(o) == o = GotStatus(s)
        IN EveryOut(c, same) =>
            /\ c.pc \in {"sleep", "await", "raised"}
            /\ (c.pc = "raised") <=> (k = 3)
            /\ c.pc = "sleep" => c.sent = k /\ c.sleeps = SubSeq(Delays, 1, k)
            /\ c.pc = "await" => c.sent = k + 1 /\ c.sleeps = SubSeq(Delays, 1, k)
            /\ c.pc = "raised" =>
                  /\ c.sent = 3
                  /\ c.sleeps = Delays
                  /\ c.raised.type = "KernelAPIError"
                  /\ c.raised.status_code = s

C1_Witness ==
    \E p \in Callers :
        /\ call[p].pc = "raised"
        /\ call[p].outs = <<GotStatus(503), GotStatus(503), GotStatus(503)>>
        /\ call[p].raised.status_code = 503

\* C2: a call whose first attempt is answered with a status in 200..499 has
\* returned that response after one attempt, without a retry or a sleep.
C2_FirstAnswerReturned ==
    \A p \in Callers :
        LET c == call[p]
        IN (c.outs # <<>> /\ c.outs[1].kind = "response"
              /\ c.outs[1].status_code >= 200 /\ c.outs[1].status_code <= 499) =>
            /\ c.pc = "returned"
            /\ c.resp.status_code = c.outs[1].status_code
            /\ c.resp.text = RespText(c.outs[1].status_code)
            /\ Len(c.outs) = 1
            /\ c.sent = 1
            /\ c.attempt = 0
            /\ c.sleeps = <<>>

C2_Witness ==
    \E p \in Callers :
        /\ call[p].pc = "returned"
        /\ call[p].outs = <<GotStatus(499)>>
        /\ call[p].resp.status_code = 499

\* C3: when the first k attempts (k = 1, 2) fail transiently and attempt k+1 is
\* answered with a status below 500, the call has returned that response after
\* exactly k backoff sleeps, and raises nothing.
C3_RecoversAfterTransient ==
    \A p \in Callers : \A k \in {1, 2} :
        LET c == call[p]
        IN (/\ Len(c.outs) > k
            /\ \A i \in 1..k : IsTransient(c.outs[i])
            /\ Below500(c.outs[k + 1])) =>
            /\ c.pc = "returned"
            /\ c.resp.status_code = c.outs[k + 1].status_code
            /\ Len(c.outs) = k + 1
            /\ c.sent = k + 1
            /\ Len(c.sleeps) = k
            /\ c.raised = NoError

C3_Witness ==
    \E p \in Callers :
        /\ call[p].pc = "returned"
        /\ call[p].outs = <<GotFault("ConnectError"), GotFault("ConnectError"), GotStatus(200)>>
        /\ call[p].resp.status_code = 200
        /\ Len(call[p].sleeps) = 2

ConfigError == Exc("ValueError", Literal("KERNEL_API_KEY environment variable not set"))

\* C4: a call made while KERNEL_API_KEY is unset or empty raises the
\* configuration error at once, with no exchange sent and no sleep, and the
\* frame that raised it does nothing more.
C4_NoCredentialNoExchange ==
    [][\A p \in Callers :
          /\ (call[p].pc = "idle" /\ call'[p].pc # "idle" /\ api_key \in {Unset, ""}) =>
                /\ call'[p].pc = "raised"
                /\ call'[p].raised = ConfigError
                /\ call'[p].sent = 0
                /\ call'[p].outs = <<>>
                /\ call'[p].sleeps = <<>>
          /\ (call[p].pc = "raised" /\ call[p].raised = ConfigError) =>
                call'[p] \in {call[p], IdleCall}]_vars

C4_Witness ==
    \E p \in Callers :
        /\ api_key = ""
        /\ call[p].pc = "raised"
        /\ call[p].raised = ConfigError
        /\ call[p].sent = 0

\* C5: a call with a method other than GET, POST, DELETE, PATCH has failed in
\* the first loop iteration: nothing was sent, nothing slept, and no error was
\* recorded for a retry.
C5_UnsupportedMethodFailsAtOnce ==
    \A p \in Callers :
        LET c == call[p]
        IN (c.pc # "idle" /\ c.method \notin {"GET", "POST", "DELETE", "PATCH"}) =>
            /\ c.pc = "raised"
            /\ c.raised.type = "ValueError"
            /\ c.sent = 0
            /\ c.outs = <<>>
            /\ c.sleeps = <<>>
            /\ c.attempt = 0
            /\ c.last_error = NoError

C5_Witness ==
    \E p \in Callers :
        /\ call[p].pc = "raised"
        /\ call[p].method = "PUT"
        /\ call[p].raised = Exc("ValueError", Literal("Unsupported method"))

\* C6: while every attempt of a call ends in a connect failure or a read/write
\* timeout the call goes on to a third attempt, and then raises KernelAPIError
\* with status code 0 and the message of the third attempt's fault.
C6_ConnectivityExhausted ==
    \A p \in Callers :
        LET c == call[p]
        IN EveryOut(c, IsConnectivity) =>
            /\ c.pc \in {"sleep", "await", "raised"}
            /\ (c.pc = "raised") <=> (Len(c.outs) = 3)
            /\ c.pc = "raised" =>
                  /\ c.sent = 3
                  /\ c.raised.type = "KernelAPIError"
                  /\ c.raised.status_code = 0
                  /\ c.raised.message = StrOf(c.outs[3].fault)

C6_Witness ==
    \E p \in Callers :
        /\ call[p].pc = "raised"
        /\ call[p].outs = <<GotFault("ConnectError"), GotFault("ReadTimeout"), GotFault("WriteTimeout")>>
        /\ call[p].raised = KernelAPIError(0, StrOf("WriteTimeout"), Url(PathOf(p)))

\* The call used up its attempts: only then is a KernelAPIError raised.
ExhaustedCall(c) == c.pc = "raised" /\ c.raised.type = "KernelAPIError"

\* C7 as claimed: after the attempts are used up the error has status code 0
\* exactly when no attempt of the call received a response.
C7_Claimed_ZeroOnlyWithoutAnyResponse ==
    \A p \in Callers :
        LET c == call[p]
        IN ExhaustedCall(c) =>
            ((c.raised.status_code = 0) <=>
                (\A i \in 1..Len(c.outs) : c.outs[i].kind # "response"))

\* C7 as amended: after the attempts are used up the error carries the status
\* of the last attempt's response, and 0 when the last attempt ended in a
\* connectivity fault, whatever the earlier attempts received.
C7_LastOutcomeDecides ==
    \A p \in Callers :
        LET c == call[p]
            last == c.outs[Len(c.outs)]
        IN ExhaustedCall(c) =>
            /\ Len(c.outs) = 3
            /\ last.kind = "response" =>
                  c.raised.status_code = last.status_code /\ last.status_code >= 500
            /\ last.kind = "fault" => c.raised.status_code = 0

C7_Witness ==
    \E p \in Callers :
        /\ ExhaustedCall(call[p])
        /\ call[p].outs = <<GotStatus(503), GotFault("ConnectError"), GotFault("ReadTimeout")>>
        /\ call[p].raised.status_code = 0

\* C8 as claimed: for a dict body (holding under "data" a list or None, or no
\* "data") and for a None body, parse_list_response yields a list: the list
\* under "data", and the empty list when "data" is absent or None or the body
\* is None.
C8_Claimed_AlwaysASequence ==
    (/\ parsed # NotParsed
     /\ body.t \in {"dict", "null"}
     /\ (body.t = "dict" /\ body.has_data) => body.data.t \in {"list", "null"}) =>
        /\ parsed.t = "list"
        /\ (body.t = "dict" /\ body.has_data /\ body.data.t = "list") => parsed = body.data
        /\ (body.t = "dict" /\ body.has_data /\ body.data.t = "null") => parsed = JList(<<>>)
        /\ (body.t = "dict" /\ ~body.has_data) => parsed = JList(<<>>)
        /\ body.t = "null" => parsed = JList(<<>>)

\* C9: parse_list_response returns the list under "data", [] when "data" is
\* None, and a body that is a list as it is.
C9_ListNormalised ==
    parsed # NotParsed =>
        /\ (body.t = "dict" /\ body.has_data /\ body.data.t = "list") =>
              parsed = JList(body.data.items)
        /\ (body.t = "dict" /\ body.has_data /\ body.data.t = "null") =>
              parsed = JList(<<>>)
        /\ body.t = "list" => parsed.t = "list" /\ parsed.items = body.items

C9_Witness ==
    /\ body = JDict(TRUE, JList(<<1, 2, 3>>), FALSE)
    /\ parsed = JList(<<1, 2, 3>>)

\* The handles that were constructed and are not closed.
Live == {h \in Handles : handles[h] = "open"}

\* C10 as claimed: at most one live transport handle exists in every state.
C10_Claimed_AtMostOneLive == Cardinality(Live) <= 1

\* The stored handle is there and open.
StoredOpen == _client # None /\ handles[_client] = "open"

\* C11: the handle a call gets from get_client() is open and is the stored
\* one; it is the handle that was stored, with nothing constructed, when that
\* one was open, and otherwise one newly constructed handle, with every other
\* handle left as it was.
C11_GetClientReturnsOpen ==
    [][\A p \in Callers :
          (call[p].pc = "idle" /\ call'[p].pc # "idle") =>
              LET h == call'[p].client
              IN /\ h \in Handles
                 /\ handles'[h] = "open"
                 /\ _client' = h
                 /\ IF StoredOpen
                    THEN h = _client /\ handles' = handles
                    ELSE /\ handles[h] = "absent"
                         /\ \A g \in Handles \ {h} : handles'[g] = handles[g]]_vars

C11_Witness ==
    \E p \in Callers :
        /\ call[p].pc = "await"
        /\ call[p].client = 2
        /\ _client = 2
        /\ handles[1] = "closed"
        /\ handles[2] = "open"
        /\ handles[3] = "absent"
        /\ cleanup_pc = "aclose"

\* C12: cleanup_client() closes the stored handle when it is open and then
\* clears the global; with no handle or a closed one stored it closes nothing
\* and changes nothing; once a call has ended, a second call finds nothing to do.
C12_CleanupIdempotent ==
    [][/\ (cleanup_pc = "idle" /\ cleanup_pc' = "aclose") =>
             /\ StoredOpen
             /\ handles' = [handles EXCEPT ![_client] = "closed"]
             /\ _client' = _client
       /\ (cleanup_pc = "aclose" /\ cleanup_pc' = "idle") =>
             /\ _client' = None
             /\ handles' = handles
             /\ ~StoredOpen'
       /\ (cleanup_pc = "idle" /\ ~StoredOpen) =>
             /\ cleanup_pc' = "idle"
             /\ \A h \in Handles : handles[h] = "open" => handles'[h] = "open"]_vars

C12_Witness ==
    /\ cleanup_pc = "idle"
    /\ _client = None
    /\ handles[1] = "closed"
    /\ handles[2] = "absent"

\* The exchanges of the calls 1..n that were sent and have no outcome yet.
RECURSIVE InFlight(_)
InFlight(n) == IF n = 0 THEN 0 ELSE InFlight(n - 1) + (call[n].sent - Len(call[n].outs))

\* C13: with 20 calls made at once against an endpoint that answers 200, all
\* calls run on the one open stored transport, whose pool admits 20
\* connections, never more than 20 exchanges are in flight on it, every call
\* answered has returned its 200 after one exchange, and the burst cannot stop
\* before every call has returned.
C13_BurstWithinLimit ==
    /\ InFlight(20) <= 20
    /\ Cardinality({h \in Handles : handles[h] # "absent"}) <= 1
    /\ \A p \in 1..20 :
          /\ call[p].pc \in {"idle", "await", "returned"}
          /\ call[p].pc # "idle" =>
                call[p].client = _client /\ handles[_client] = "open" /\ call[p].sent = 1
          /\ call[p].outs # <<>> =>
                call[p].pc = "returned" /\ call[p].resp = Response(200)
    /\ (\E p \in 1..20 : call[p].pc # "returned") => ENABLED NextLoad

C13_Witness == \A p \in 1..20 : call[p].pc = "returned" /\ call[p].resp.status_code = 200

\* The burst at its peak: all 20 exchanges in flight.
C13_Peak == InFlight(20) = 20

\* C14 as claimed: no connectivity or timeout fault of the transport (connect
\* failure, connect timeout, read timeout, write timeout, pool timeout) leaves
\* request() as it is: each is recorded and retried, so the call goes on after
\* it while attempts remain.
C14_Claimed_NoFaultEscapes ==
    \A p \in Callers :
        LET c == call[p]
            n == Len(c.outs)
            faults == {"ConnectError", "ConnectTimeout", "ReadTimeout", "WriteTimeout", "PoolTimeout"}
        IN /\ c.pc = "raised" => c.raised.type \notin faults
           /\ (n > 0 /\ n < 3 /\ c.outs[n].kind = "fault" /\ c.outs[n].fault \in faults) =>
                 c.pc \in {"sleep", "await"}

\* C15 as claimed: a call that fails for a missing credential leaves the
\* stored handle and every handle as they were.
C15_Claimed_NoCredentialLeavesTransport ==
    [][\A p \in Callers :
          (call[p].pc = "idle" /\ call'[p].pc = "raised" /\ call'[p].raised = ConfigError) =>
              (_client' = _client /\ handles' = handles)]_vars

\* C16: when all three attempts were answered with statuses of 500 or more,
\* the error raised carries the status and the body text of the third answer.
C16_LastServerErrorRaised ==
    \A p \in Callers :
        LET c == call[p]
        IN (c.pc = "raised" /\ Len(c.outs) = 3 /\ EveryOut(c, Is5xx)) =>
            /\ c.raised.type = "KernelAPIError"
            /\ c.raised.status_code = c.outs[3].status_code
            /\ c.raised.message = RespText(c.outs[3].status_code)

C16_Witness ==
    \E p \in Callers :
        /\ call[p].pc = "raised"
        /\ call[p].outs = <<GotStatus(500), GotStatus(503), GotStatus(599)>>
        /\ call[p].raised.status_code = 599
        /\ call[p].raised.message = RespText(599)

\* What is left of a call: it falls with every step the call takes.
Rank(c) ==
    IF c.pc \in {"await", "sleep"}
    THEN 2 * (3 - c.attempt) - (IF c.pc = "sleep" THEN 1 ELSE 0)
    ELSE 0

C17_Bounds ==
    \A p \in Callers :
        LET c == call[p]
        IN /\ c.sent <= 3
           /\ Len(c.outs) <= 3
           /\ Len(c.sleeps) <= 2
           /\ c.sleeps = SubSeq(<<500, 1000>>, 1, Len(c.sleeps))
           /\ Len(c.sleeps) = c.attempt + (IF c.pc = "sleep" THEN 1 ELSE 0)
           /\ c.sent = 3 => c.pc # "sleep"
           /\ c.pc = "sleep" => ENABLED Wake(p)
           /\ c.pc \in {"await", "sleep"} => Rank(c) > 0

C17_Step ==
    \A p \in Callers :
        (call[p].pc \in {"await", "sleep"} /\ call'[p] # call[p]) =>
            Rank(call'[p]) < Rank(call[p])

\* C17: a call sends at most 3 attempts and sleeps at most twice, 0.5 s before
\* the second attempt and 1.0 s before the third and never after the third;
\* every step of a call in flight brings it nearer its end, so it ends once
\* each of its attempts has an outcome.
C17_BoundedRetries == []C17_Bounds /\ [][C17_Step]_vars

C17_Witness ==
    \E p \in Callers :
        /\ call[p].pc = "raised"
        /\ call[p].sent = 3
        /\ call[p].sleeps = <<500, 1000>>
        /\ call[p].outs = <<GotStatus(503), GotFault("ReadTimeout"), GotStatus(500)>>

\* The outcomes of exchanges that were sent (a closed client refuses to send).
Answered(c) == Len(SelectSeq(c.outs, LAMBDA o : o.fault # "RuntimeError"))

C18_OneInFlight ==
    \A p \in Callers :
        LET c == call[p]
        IN /\ c.sent - Answered(c) \in {0, 1}
           /\ (c.sent - Answered(c) = 1) <=> (c.pc = "await")

C18_Step ==
    \A p \in Callers :
        call'[p].sent > call[p].sent =>
            /\ call'[p].sent = call[p].sent + 1
            /\ call[p].pc \in {"idle", "sleep"}
            /\ call[p].pc = "sleep" =>
                  /\ Len(call[p].outs) = call[p].sent
                  /\ Len(call[p].sleeps) = call[p].sent
                  /\ call'[p].attempt = call[p].sent

\* C18: a call never has two exchanges in flight; an attempt after the first
\* is sent only from the backoff sleep, when every earlier attempt has its
\* outcome and one sleep has followed each of them.
C18_AttemptsSequential == []C18_OneInFlight /\ [][C18_Step]_vars

C18_Witness ==
    \E p \in Callers :
        /\ call[p].pc = "await"
        /\ call[p].sent = 3
        /\ Len(call[p].outs) = 2
        /\ Len(call[p].sleeps) = 2

\* C19: while one call is suspended in its backoff sleep or in its exchange,
\* the other call can take its next step whatever it is: start, receive its
\* answer, or wake from its own sleep.
C19_SuspensionDoesNotBlock ==
    \A p \in Callers : \A q \in Callers \ {p} :
        call[q].pc \in {"sleep", "await"} =>
            /\ call[p].pc = "idle" => ENABLED Start(p, "GET")
            /\ call[p].pc = "await" => ENABLED Respond(p, 200)
            /\ call[p].pc = "sleep" => ENABLED Wake(p)

C19_Witness ==
    /\ call[2].pc = "sleep"
    /\ Len(call[2].outs) = 1
    /\ call[1].pc = "returned"
    /\ call[1].outs = <<GotStatus(503), GotFault("ConnectError"), GotStatus(200)>>

\* C20: with callers entering get_client() while no handle exists, one handle
\* is constructed in all, and every call in flight holds it: the stored, open
\* one.
C20_OneHandleOnFirstUse ==
    /\ Cardinality({h \in Handles : handles[h] # "absent"}) <= 1
    /\ \A p \in Callers :
          call[p].pc # "idle" =>
              /\ call[p].client \in Handles
              /\ call[p].client = _client
              /\ handles[call[p].client] = "open"

C20_Witness ==
    /\ \A p \in Callers : call[p].pc = "await" /\ call[p].client = 1 /\ call[p].sent = 1
    /\ _client = 1
    /\ handles = [h \in Handles |-> IF h = 1 THEN "open" ELSE "absent"]

\* What the loop records for one failed attempt of a call to url.
RecordOf(o, url) ==
    IF o.kind = "response"
    THEN KernelAPIError(o.status_code, RespText(o.status_code), url)
    ELSE Exc(o.fault, StrOf(o.fault))

LastOut(c) == c.outs[Len(c.outs)]

\* ------------------------------------------------------------ the tools
\* One tool handler: the request it makes, the statuses it accepts and what
\* it returns for them.
Tool(method, path, ok, returns) ==
    [method |-> method, path |-> path, ok |-> ok, returns |-> returns]

\* browsers.py
browser_tools ==
       "create_browser" :> Tool("POST", "/browsers", {200}, "resp.json()")
    @@ "get_browser" :> Tool("GET", "/browsers/{session_id}", {200}, "resp.json()")
    @@ "list_browsers" :> Tool("GET", "/browsers", {200}, "parse_list_response")
    @@ "delete_browser" :> Tool("DELETE", "/browsers/{session_id}", {200, 204}, "literal")
    @@ "screenshot" :> Tool("POST", "/browsers/{session_id}/computer/screenshot", {200}, "ImageContent")
    @@ "click_mouse" :> Tool("POST", "/browsers/{session_id}/computer/click_mouse", {200}, "literal")
    @@ "move_mouse" :> Tool("POST", "/browsers/{session_id}/computer/move_mouse", {200}, "literal")
    @@ "drag_mouse" :> Tool("POST", "/browsers/{session_id}/computer/drag_mouse", {200}, "literal")
    @@ "type_text" :> Tool("POST", "/browsers/{session_id}/computer/type", {200}, "literal")
    @@ "press_keys" :> Tool("POST", "/browsers/{session_id}/computer/press_key", {200}, "literal")
    @@ "scroll" :> Tool("POST", "/browsers/{session_id}/computer/scroll", {200}, "literal")
    @@ "execute_playwright" :> Tool("POST", "/browsers/{session_id}/playwright/execute", {200}, "resp.json()")

\* apps.py
app_tools ==
       "list_profiles" :> Tool("GET", "/profiles", {200}, "parse_list_response")
    @@ "save_profile" :> Tool("POST", "/profiles", {200, 201}, "resp.json()")
    @@ "delete_profile" :> Tool("DELETE", "/profiles/{profile_id}", {200, 204}, "literal")
    @@ "list_apps" :> Tool("GET", "/apps", {200}, "parse_list_response")
    @@ "list_deployments" :> Tool("GET", "/deployments", {200}, "parse_list_response")
    @@ "get_deployment" :> Tool("GET", "/deployments/{deployment_id}", {200}, "resp.json()")
    @@ "invoke_action" :> Tool("POST", "/invocations", {200, 202}, "resp.json()")
    @@ "list_invocations" :> Tool("GET", "/invocations", {200}, "parse_list_response")
    @@ "get_invocation" :> Tool("GET", "/invocations/{invocation_id}", {200}, "resp.json()")

\* server.collect(*browser_tools, *app_tools)
ToolTable == browser_tools @@ app_tools
Tools == DOMAIN ToolTable

\* Mutant: the status of the response is not looked at.
ToolEndNoCheck(t, c) ==
    IF c.pc = "raised"
    THEN [t EXCEPT !.pc = "raised", !.raised = c.raised]
    ELSE [t EXCEPT !.pc = "returned", !.result = ToolTable[t.name].returns]

\* The handler after resp = await request(...): an exception of request()
\* passes through it; a response is checked against the accepted statuses.
ToolEnd(t, c) ==
    IF c.pc = "raised"
    THEN [t EXCEPT !.pc = "raised", !.raised = c.raised]
    ELSE IF c.resp.status_code \notin ToolTable[t.name].ok
    THEN [t EXCEPT !.pc = "raised",
                   !.raised = KernelAPIError(c.resp.status_code, c.resp.text, Path(ToolTable[t.name].path))]
    ELSE [t EXCEPT !.pc = "returned", !.result = ToolTable[t.name].returns]

\* The server, while serve() runs, runs tool t for caller p: the handler up
\* to the first await of its request().
ToolInvoke(p, t) ==
    /\ serve.pc = "serving"
    /\ tool[p].pc # "request"
    /\ StartAt(p, ToolTable[t].method, ToolTable[t].path)
    /\ tool' = [tool EXCEPT ![p] = [IdleTool EXCEPT !.pc = "request", !.name = t]]
    /\ UNCHANGED serve

\* request() has returned or raised: the rest of the handler.
ToolResume(p) ==
    /\ tool[p].pc = "request"
    /\ call[p].pc \in {"returned", "raised"}
    /\ tool' = [tool EXCEPT ![p] = ToolEnd(tool[p], call[p])]
    /\ call' = [call EXCEPT ![p] = IdleCall]
    /\ UNCHANGED <<_client, handles, api_key, cleanup_pc, body, parsed, serve>>

\* ------------------------------------------------------------ main() of server.py
\* create_server() and server.collect(...), up to await server.serve().
MainStart ==
    /\ serve.pc = "start"
    /\ serve' = [serve EXCEPT !.pc = "serving"]
    /\ UNCHANGED <<_client, handles, api_key, call, cleanup_pc, body, parsed, tool>>

\* Mutant: cleanup_client() follows the try block instead of being in its
\* finally clause: an exception of serve() leaves main() without it.
ServeEndNoFinally(o) ==
    /\ serve.pc = "serving"
    /\ IF o = "raised"
       THEN /\ serve' = [serve EXCEPT !.pc = "done", !.outcome = o]
            /\ UNCHANGED <<handles, cleanup_pc>>
       ELSE IF IsOpen(_client, handles)
       THEN /\ handles' = [handles EXCEPT ![_client] = "closed"]
            /\ cleanup_pc' = "aclose"
            /\ serve' = [pc |-> "cleanup", outcome |-> o, cleanups |-> serve.cleanups + 1]
       ELSE /\ serve' = [pc |-> "done", outcome |-> o, cleanups |-> serve.cleanups + 1]
            /\ UNCHANGED <<handles, cleanup_pc>>
    /\ UNCHANGED <<_client, api_key, call, body, parsed, tool>>

\* serve() returns or raises (o): the finally clause calls cleanup_client(),
\* which runs up to its await of aclose(), or to its end when there is no
\* open stored handle.
ServeEnd(o) ==
    /\ serve.pc = "serving"
    /\ IF IsOpen(_client, handles)
       THEN /\ handles' = [handles EXCEPT ![_client] = "closed"]
            /\ cleanup_pc' = "aclose"
            /\ serve' = [pc |-> "cleanup", outcome |-> o, cleanups |-> serve.cleanups + 1]
       ELSE /\ serve' = [pc |-> "done", outcome |-> o, cleanups |-> serve.cleanups + 1]
            /\ UNCHANGED <<handles, cleanup_pc>>
    /\ UNCHANGED <<_client, api_key, call, body, parsed, tool>>

\* aclose() has returned: cleanup_client() clears the global and main() ends,
\* returning or raising as serve() did.
MainCleanupEnd ==
    /\ serve.pc = "cleanup"
    /\ cleanup_pc = "aclose"
    /\ _client' = None
    /\ cleanup_pc' = "idle"
    /\ serve' = [serve EXCEPT !.pc = "done"]
    /\ UNCHANGED <<handles, api_key, call, body, parsed, tool>>

\* The server: tools are run while serve() is running; the requests they have
\* in flight go on after it.
SrvStatuses == {200, 201, 202, 204, 400, 404, 499, 500}
SrvFaults == {"ConnectError", "ConnectTimeout"}
ServeOutcomes == {"returned", "raised"}

NextServer ==
    \/ MainStart
    \/ \E p \in Solo, t \in Tools : ToolInvoke(p, t)
    \/ \E p \in Solo, s \in SrvStatuses : Respond(p, s)
    \/ \E p \in Solo, f \in SrvFaults : Fault(p, f)
    \/ \E p \in Solo : Wake(p)
    \/ \E p \in Solo : ToolResume(p)
    \/ \E o \in ServeOutcomes : ServeEnd(o)
    \/ MainCleanupEnd

SpecServer == Init /\ [][NextServer]_vars

\* ------------------------------------------------------------ calls and shutdown
\* Two callers with cleanup_client() called at any moment between their steps.
DownStatuses == {200, 503}
DownFaults == {"ConnectError"}

NextDown ==
    \/ \E p \in Callers : Start(p, "GET")
    \/ \E p \in Callers, s \in DownStatuses : Respond(p, s)
    \/ \E p \in Callers, f \in DownFaults : Fault(p, f)
    \/ \E p \in Callers : Wake(p)
    \/ \E p \in Callers : Finish(p)
    \/ CleanupBegin
    \/ CleanupEnd
    \/ CleanupNoop

SpecDown == InitConc /\ [][NextDown]_vars

C21_Own ==
    \A p \in Callers :
        LET c == call[p]
        IN /\ c.pc = "await" =>
                /\ c.attempt = Len(c.outs)
                /\ c.sent = Len(c.outs) + 1
                /\ c.last_error = IF c.outs = <<>> THEN NoError ELSE RecordOf(LastOut(c), c.url)
           /\ c.pc = "sleep" =>
                /\ c.attempt = Len(c.outs) - 1
                /\ c.sent = Len(c.outs)
                /\ c.last_error = RecordOf(LastOut(c), c.url)
           /\ c.pc = "returned" =>
                /\ c.attempt = Len(c.outs) - 1
                /\ Below500(LastOut(c))
                /\ c.resp = Response(LastOut(c).status_code)
           /\ ExhaustedCall(c) =>
                /\ Len(c.outs) = MAX_RETRIES
                /\ c.sent = MAX_RETRIES
                /\ c.raised = IF LastOut(c).kind = "response"
                              THEN RecordOf(LastOut(c), c.url)
                              ELSE KernelAPIError(0, StrOf(LastOut(c).fault), c.url)

C21_Step ==
    \A p \in Callers :
        call'[p] # call[p] => \A q \in Callers \ {p} : call'[q] = call[q]

\* C21: with two calls in flight, a step of one call leaves the frame of the
\* other as it was, and the attempt counter, the recorded error and the
\* reported outcome of each call are those its own attempts give: a call that
\* raises KernelAPIError has had three attempts of its own, whatever the
\* other call went through.
C21_RetryStatePrivate == []C21_Own /\ [][C21_Step]_vars

C21_Witness ==
    /\ call[1].pc = "raised"
    /\ call[1].outs = <<GotStatus(503), GotFault("ConnectError"), GotStatus(500)>>
    /\ call[1].raised.status_code = 500
    /\ call[2].pc = "sleep"
    /\ call[2].outs = <<GotFault("ReadTimeout")>>
    /\ call[2].attempt = 0
    /\ call[2].last_error = Exc("ReadTimeout", StrOf("ReadTimeout"))

\* C22: a step of request() after it has acquired the handle leaves every
\* handle and the stored handle as they are; an open handle becomes closed
\* only in the step of cleanup_client() that calls aclose(), and it is the
\* stored one; the stored handle is cleared only in the step that ends
\* cleanup_client(); a handle is constructed only in the step where a call
\* enters get_client(), and it becomes the stored one.
C22_RequestLeavesHandle ==
    [][/\ \A p \in Callers :
            (call[p].pc # "idle" /\ call'[p] # call[p]) =>
                (handles' = handles /\ _client' = _client)
       /\ \A h \in Handles :
            (handles[h] = "open" /\ handles'[h] # "open") =>
                /\ handles'[h] = "closed"
                /\ h = _client
                /\ cleanup_pc = "idle" /\ cleanup_pc' = "aclose"
                /\ call' = call
       /\ (_client # None /\ _client' = None) =>
                /\ cleanup_pc = "aclose" /\ cleanup_pc' = "idle"
                /\ call' = call
       /\ \A h \in Handles :
            (handles[h] = "absent" /\ handles'[h] # "absent") =>
                /\ handles'[h] = "open"
                /\ _client' = h
                /\ ~IsOpen(_client, handles)
                /\ \E p \in Callers : call[p].pc = "idle" /\ call'[p].client = h
       /\ (_client' # _client /\ _client' # None) =>
                (handles[_client'] = "absent" /\ handles'[_client'] = "open")]_vars

C22_Witness ==
    /\ call[1].pc = "raised"
    /\ call[1].outs = <<GotStatus(503), GotFault("ConnectError"), GotFault("ReadTimeout")>>
    /\ call[1].client = 2
    /\ _client = 2
    /\ handles[2] = "open"
    /\ handles[1] = "closed"

C26_Step ==
    \A p \in Callers :
        LET c == call[p]
            d == call'[p]
        IN /\ (c.pc = "idle" /\ d.pc # "idle") =>
                (d.client = _client' /\ d.client \in Handles /\ d.sent <= 1)
           /\ (c.pc # "idle" /\ d.pc # "idle") => d.client = c.client
           /\ (c.pc = "sleep" /\ d # c) =>
                IF handles[c.client] = "open"
                THEN d.pc = "await" /\ d.sent = c.sent + 1
                ELSE /\ d.pc = "raised"
                     /\ d.raised.type = "RuntimeError"
                     /\ d.sent = c.sent
           /\ d.sent > c.sent => handles'[d.client] = "open"

\* C26: a call takes the handle once, in the step that sends its first
\* attempt, and holds that handle until it ends; every later attempt is
\* issued on the held handle whatever the stored handle is by then: sent on
\* it when it is open, and refused by it when cleanup_client() has closed it,
\* also with another open handle stored.
C26_HandleCapturedOnce == [][C26_Step]_vars

C26_Witness ==
    /\ \E p \in Callers :
          /\ call[p].pc = "raised"
          /\ call[p].raised.type = "RuntimeError"
          /\ call[p].attempt = 1
          /\ call[p].client = 1
    /\ handles[1] = "closed"
    /\ _client = 2
    /\ handles[2] = "open"

\* C23 as claimed: the KernelAPIError raised once the attempts are used up
\* carries a status code, a message and, as endpoint, the path the caller
\* passed; a call that returns has a response.
C23_Claimed_EndpointIsThePath ==
    \A p \in Callers :
        LET c == call[p]
        IN /\ ExhaustedCall(c) =>
                /\ Len(c.outs) = MAX_RETRIES
                /\ c.raised.message # NoMsg
                /\ c.raised.endpoint = Path(PathOf(p))
           /\ c.pc = "returned" => c.resp # NoResponse

\* C27 as claimed: every attempt carries the bearer header of the credential,
\* and the Content-Type header only when it carries a body.
C27_Claimed_ContentTypeOnlyWithBody ==
    \A p \in Callers :
        call[p].pc = "await" =>
            LET w == Wire(call[p])
            IN /\ w.headers.Authorization.scheme = "Bearer"
               /\ HasKey(w.headers.Authorization.token)
               /\ w.headers.ContentType = "application/json" => w.has_body

C27_Carried ==
    \A p \in Callers :
        call[p].pc = "await" =>
            LET w == Wire(call[p])
            IN /\ w.headers.Authorization.scheme = "Bearer"
               /\ HasKey(w.headers.Authorization.token)
               /\ w.headers.ContentType = "application/json"

C27_Step ==
    \A p \in Callers :
        LET c == call[p]
            d == call'[p]
        IN /\ (c.pc = "idle" /\ d.pc = "await") => d.headers = get_headers(api_key)
           /\ (c.pc # "idle" /\ d.pc # "idle") => d.headers = c.headers

\* C27: the headers of a call are built in the step that sends its first
\* attempt, from the credential the environment holds at that moment, and
\* stay the same until the call ends, whatever the environment holds later;
\* every attempt carries them: the bearer header of that credential and
\* Content-Type: application/json, with a body or without one.
C27_HeadersBuiltOnce == []C27_Carried /\ [][C27_Step]_vars

C27_Witness ==
    /\ call[1].pc = "await"
    /\ call[1].method = "GET"
    /\ call[1].sent = 3
    /\ api_key = Unset
    /\ Wire(call[1]) = [headers |-> [Authorization |-> Bearer("k1"), ContentType |-> "application/json"],
                        has_body |-> FALSE]

C24_Step ==
    \A p \in Callers :
        LET c == call[p]
            t == tool[p]
            d == tool'[p]
        IN (/\ t.pc = "request"
            /\ c.pc = "returned"
            /\ c.resp.status_code >= 400 /\ c.resp.status_code <= 499
            /\ d # t) =>
                /\ d.pc = "raised"
                /\ d.name = t.name
                /\ d.raised = KernelAPIError(c.resp.status_code, RespText(c.resp.status_code),
                                             Path(ToolTable[t.name].path))
                /\ call'[p] = IdleCall

C24_NoFurtherRequest ==
    \A p \in Callers :
        tool[p].pc \in {"returned", "raised"} => call[p].pc = "idle"

\* C24: for each of the tools of browsers.py and apps.py, when its request()
\* returns a response with a status from 400 to 499, the handler ends in the
\* same step, without starting a request, by raising KernelAPIError with
\* that status, the body text of that response and the path of the tool; a
\* handler that has ended has no request in flight.
C24_ClientErrorRaisedByTool == []C24_NoFurtherRequest /\ [][C24_Step]_vars

C24_Witness ==
    /\ tool[1].pc = "raised"
    /\ tool[1].name = "delete_profile"
    /\ tool[1].raised = KernelAPIError(404, RespText(404), Path("/profiles/{profile_id}"))
    /\ call[1] = IdleCall

C25_Once ==
    /\ serve.cleanups <= 1
    /\ serve.pc \in {"start", "serving"} =>
          /\ serve.cleanups = 0
          /\ cleanup_pc = "idle"
          /\ \A h \in Handles : handles[h] # "closed"
    /\ serve.pc \in {"cleanup", "done"} =>
          /\ serve.cleanups = 1
          /\ serve.outcome \in ServeOutcomes
    /\ serve.pc = "done" => ~IsOpen(_client, handles)

C25_Step ==
    serve'.cleanups # serve.cleanups =>
        /\ serve.pc = "serving"
        /\ serve'.pc \in {"cleanup", "done"}
        /\ serve'.cleanups = serve.cleanups + 1

\* C25: main() calls cleanup_client() once, in the step in which serve()
\* ends, whether serve() returned or raised; it has not called it while
\* serve() is running and does not call it again; when main() has ended no
\* open handle is stored.
C25_CleanupOnceOnShutdown ==
    /\ []C25_Once
    /\ [][C25_Step]_vars
    /\ [](serve.pc = "serving" => \A o \in ServeOutcomes : ENABLED ServeEnd(o))

C25_Witness ==
    /\ serve = [pc |-> "done", outcome |-> "raised", cleanups |-> 1]
    /\ _client = None
    /\ handles[1] = "closed"

====
